---- MODULE Spec2Model ----
(***************************************************************************)
(* Weight computation and chain commit of affine-cortex:                   *)
(*   WeightSetter.process_weights and WeightSetter.set_weights             *)
(*   (affine/src/validator/weight_setter.py).                              *)
(*                                                                         *)
(* Floats are modelled as exact rationals <<numerator, denominator>> with  *)
(* a positive denominator, kept in lowest terms.  Dictionary keys are      *)
(* sequences of characters, so that int(uid_str) is a real parse.          *)
(***************************************************************************)
EXTENDS Integers, Sequences, FiniteSets, TLC

(* ------------------------------ bounds --------------------------------- *)

\* max_retries is drawn from -1 .. MaxRetriesBound
MaxRetriesBound == 3

\* api_weights handed to set_weights holds at most this many entries
MaxCommitEntries == 2

\* api_weights handed to process_weights alone holds at most this many
MaxProcEntries == 2

(* --------------------------- exact rationals ---------------------------- *)

RECURSIVE GCD(_, _)
GCD(a, b) ==
    IF b = 0 THEN a ELSE GCD(b, a % b)

Abs(x) ==
    IF x < 0 THEN -x ELSE x

\* the rational n/d (d > 0) in lowest terms
Rat(n, d) ==
    LET g == GCD(Abs(n), d)
    IN  IF n = 0 THEN <<0, 1>> ELSE <<n \div g, d \div g>>

RatAdd(a, b) ==
    Rat(a[1] * b[2] + b[1] * a[2], a[2] * b[2])

RatSub(a, b) ==
    Rat(a[1] * b[2] - b[1] * a[2], a[2] * b[2])

RatMul(a, b) ==
    Rat(a[1] * b[1], a[2] * b[2])

\* a / b for b > 0
RatDiv(a, b) ==
    Rat(a[1] * b[2], a[2] * b[1])

RatLt(a, b) ==
    a[1] * b[2] < b[1] * a[2]

RatLe(a, b) ==
    a[1] * b[2] <= b[1] * a[2]

Zero ==
    <<0, 1>>

One ==
    <<1, 1>>

RECURSIVE RatSum(_)
RatSum(s) ==
    IF s = <<>> THEN Zero ELSE RatAdd(Head(s), RatSum(Tail(s)))

(* ------------------------- the input dictionary ------------------------- *)

\* weight_data values: a dict carrying a numeric "weight", a dict without
\* the field, a dict whose "weight" is a non-numeric string or None, and a
\* value that is no dict at all (a bare float).
NumData(n) ==
    [kind |-> "num", w |-> <<n, 1>>]

MissingData ==
    [kind |-> "missing", w |-> Zero]

BadStrData ==
    [kind |-> "badstr", w |-> Zero]

NoneData ==
    [kind |-> "none", w |-> Zero]

NotDictData ==
    [kind |-> "notdict", w |-> Zero]

Digits ==
    {"0", "1", "2", "5"}

DigitVal(c) ==
    CASE c = "0" -> 0
      [] c = "1" -> 1
      [] c = "2" -> 2
      [] c = "5" -> 5
      [] OTHER -> 0

RECURSIVE DigitsVal(_, _)
DigitsVal(s, acc) ==
    IF s = <<>> THEN acc
    ELSE DigitsVal(Tail(s), 10 * acc + DigitVal(Head(s)))

AllDigits(s) ==
    /\ Len(s) >= 1
    /\ \A i \in 1..Len(s) : s[i] \in Digits

\* int(uid_str): an optional sign, then one or more decimal digits; anything
\* else raises ValueError (ok = FALSE).
ParseInt(s) ==
    IF s # <<>> /\ Head(s) = "-" /\ AllDigits(Tail(s))
        THEN [ok |-> TRUE, val |-> 0 - DigitsVal(Tail(s), 0)]
    ELSE IF AllDigits(s)
        THEN [ok |-> TRUE, val |-> DigitsVal(s, 0)]
    ELSE [ok |-> FALSE, val |-> 0]

\* float(weight_data.get("weight", 0.0)):
\*   "ok"     the float value,
\*   "caught" ValueError / TypeError, caught by the loop's except clause,
\*   "escape" AttributeError (no .get on a non-dict), which the clause
\*            does not catch.
ParseWeight(d) ==
    CASE d.kind = "num" -> [st |-> "ok", w |-> d.w]
      [] d.kind = "missing" -> [st |-> "ok", w |-> Zero]
      [] d.kind = "badstr" -> [st |-> "caught", w |-> Zero]
      [] d.kind = "none" -> [st |-> "caught", w |-> Zero]
      [] OTHER -> [st |-> "escape", w |-> Zero]

\* all maps (insertion-ordered, keys distinct) of at most n entries
ApiMaps(keys, data, n) ==
    { s \in UNION { [1..k -> [key : keys, data : data]] : k \in 0..n } :
        \A i, j \in 1..Len(s) : i # j => s[i].key # s[j].key }

(* --------------------------- process_weights ---------------------------- *)

Vec(u, w) ==
    [st |-> "ok", exc |-> "", uids |-> u, weights |-> w]

Raised(e) ==
    [st |-> "raise", exc |-> e, uids |-> <<>>, weights |-> <<>>]

\* the validation checking the upper end only
BurnValid_upperOnly(burn) ==
    ~ RatLt(One, burn)

BurnValid(burn) ==
    ~ (RatLt(burn, Zero) \/ RatLt(One, burn))

\* the entry filter letting negative UIDs through
KeepEntry_anyUid(uid, weight) ==
    RatLt(Zero, weight)

\* the entry filter letting a weight of 0 through
KeepEntry_zeroWeight(uid, weight) ==
    uid >= 0 /\ RatLe(Zero, weight)

\* the entry filter of the parse loop
KeepEntry(uid, weight) ==
    uid >= 0 /\ RatLt(Zero, weight)

\* the parse loop over api_weights.items(), accumulating (uids, weights)
RECURSIVE ParseLoop(_, _, _)
ParseLoop(api, u, w) ==
    IF api = <<>> THEN Vec(u, w)
    ELSE
        LET e == Head(api)
            p == ParseInt(e.key)
            f == ParseWeight(e.data)
        IN  IF ~ p.ok THEN ParseLoop(Tail(api), u, w)
            ELSE IF f.st = "escape" THEN Raised("AttributeError")
            ELSE IF f.st = "caught" THEN ParseLoop(Tail(api), u, w)
            ELSE IF KeepEntry(p.val, f.w)
                THEN ParseLoop(Tail(api), Append(u, p.val), Append(w, f.w))
            ELSE ParseLoop(Tail(api), u, w)

\* uids.index(0): the first position holding 0
IndexOf0(u) ==
    CHOOSE i \in 1..Len(u) : u[i] = 0 /\ \A j \in 1..(i - 1) : u[j] # 0

\* the burn step adding the burn without scaling the rest
ApplyBurn_noScale(u, w, burn) ==
    IF \E i \in 1..Len(u) : u[i] = 0
        THEN Vec(u, [w EXCEPT ![IndexOf0(u)] = RatAdd(@, burn)])
    ELSE Vec(<<0>> \o u, <<burn>> \o w)

\* the burn step always prepending a new UID 0
ApplyBurn_prepend(u, w, burn) ==
    Vec(<<0>> \o u,
        <<burn>> \o [i \in 1..Len(w) |-> RatMul(w[i], RatSub(One, burn))])

\* the scorer's minimum weight, 0.01
MIN_WEIGHT_THRESHOLD ==
    <<1, 100>>

\* the burn step zeroing every share under the scorer's minimum weight
ApplyBurn_floor(u, w, burn) ==
    LET scaled == [i \in 1..Len(w) |-> RatMul(w[i], RatSub(One, burn))]
        floor(x) == IF RatLt(x, MIN_WEIGHT_THRESHOLD) THEN Zero ELSE x
    IN  IF \E i \in 1..Len(u) : u[i] = 0
            THEN Vec(u, [i \in 1..Len(w) |->
                            floor(IF i = IndexOf0(u)
                                      THEN RatAdd(scaled[i], burn)
                                  ELSE scaled[i])])
        ELSE Vec(<<0>> \o u,
                 <<burn>> \o [i \in 1..Len(w) |-> floor(scaled[i])])

\* the burn step: scale all by (1 - burn), then UID 0 += burn
ApplyBurn(u, w, burn) ==
    LET scaled == [i \in 1..Len(w) |-> RatMul(w[i], RatSub(One, burn))]
    IN  IF \E i \in 1..Len(u) : u[i] = 0
            THEN Vec(u, [scaled EXCEPT ![IndexOf0(u)] = RatAdd(@, burn)])
        ELSE Vec(<<0>> \o u, <<burn>> \o scaled)

process_weights(api, burn) ==
    IF ~ BurnValid(burn) THEN Raised("WeightProcessingError")
    ELSE
        LET parsed == ParseLoop(api, <<>>, <<>>)
        IN  IF parsed.st = "raise" THEN parsed
            ELSE IF parsed.uids = <<>> THEN Vec(<<>>, <<>>)
            ELSE
                LET total == RatSum(parsed.weights)
                    norm == [i \in 1..Len(parsed.weights) |->
                                RatDiv(parsed.weights[i], total)]
                IN  IF RatLe(total, Zero) THEN Raised("WeightProcessingError")
                    ELSE IF RatLt(Zero, burn) /\ RatLe(burn, One)
                        THEN ApplyBurn(parsed.uids, norm, burn)
                    ELSE Vec(parsed.uids, norm)

(* ------------------------------ set_weights ----------------------------- *)

VARIABLES
    self,         \* the instance: [wallet, netuid]
    pc,           \* where the running set_weights call stands
    uids,         \* the processed vector (locals of the call)
    weights,
    max_retries,  \* the call's argument
    attempt,      \* the loop variable of "for attempt in range(max_retries)"
    last_error,   \* the local last_error ("None" or an exception class)
    result,       \* how the call ended: a returned bool or a raised exception
    trace,        \* what the call has done so far, in order
    applied,      \* submissions of this call that the ledger has applied
    prev,         \* how the previous call on the instance went and ended
    args,         \* the (api_weights, burn_percentage) of the running call
    pin,          \* the arguments of a process_weights call made on its own
    pout,         \* what that call gave
    dataset_range, \* the stored dataset_range: segments <<start, end>>
    last_expand,  \* the last expand_dataset_range call and what it returned
    query,        \* a miners() call: its uids, the limit, the commits
    qpc,          \* where the miners() call stands
    fetch,        \* where each _fetch_miner task stands
    meta_sem,     \* the permits left in meta_sem
    results,      \* what each _fetch_miner task returned
    output        \* the uids in the dict miners() returns

vars ==
    <<self, pc, uids, weights, max_retries, attempt, last_error, result,
      trace, applied, prev, args, pin, pout, dataset_range, last_expand,
      query, qpc, fetch, meta_sem, results, output>>

\* the state of a set_weights or process_weights call
setterVars ==
    <<self, pc, uids, weights, max_retries, attempt, last_error, result,
      trace, applied, prev, args, pin, pout>>

\* the state of the dataset range resolver
rangeVars ==
    <<dataset_range, last_expand>>

\* the state of a miners() call
minerVars ==
    <<query, qpc, fetch, meta_sem, results, output>>

NoExpand ==
    [called |-> FALSE, old |-> <<>>, new_value |-> 0, none |-> FALSE,
     ret |-> <<>>]

\* no range resolved yet
RangeIdle ==
    /\ dataset_range = <<>>
    /\ last_expand = NoExpand

NoQuery ==
    [uids |-> <<>>, limit |-> 0, commits |-> <<>>]

\* no miners() call made
MinersIdle ==
    /\ query = NoQuery
    /\ qpc = "idle"
    /\ fetch = <<>>
    /\ meta_sem = 0
    /\ results = <<>>
    /\ output = {}

\* exceptions a ledger call may raise; the first three are the classes the
\* first except clause of the attempt loop names
Exceptions ==
    {"NetworkError", "ConnectionError", "TimeoutError", "RuntimeError"}

IsNetworkClass(e) ==
    e \in {"NetworkError", "ConnectionError", "TimeoutError"}

ErrClass(e) ==
    IF IsNetworkClass(e) THEN "transient" ELSE "fatal"

\* asyncio.sleep(60)
RetryDelay == 60

\* one entry of the trace
Ev(ev, n, out) ==
    [ev |-> ev, n |-> n, out |-> out, uid |-> 0, share |-> Zero,
     incl |-> FALSE, fin |-> FALSE, acc |-> FALSE, secs |-> 0]

\* only the first pair logged
AuditLines_first(u, w) ==
    IF u = <<>> THEN <<>>
    ELSE <<[Ev("audit", 0, "") EXCEPT !.uid = u[1], !.share = w[1]]>>

\* the "  UID <uid>: <weight>" lines, one per zip(uids, weights) pair
AuditLines(u, w) ==
    [i \in 1..Len(u) |->
        [Ev("audit", 0, "") EXCEPT !.uid = u[i], !.share = w[i]]]

\* the submission not waiting for finalization
SubmitEv_noFinalization(n, out, acc) ==
    [Ev("set_weights", n, out) EXCEPT
        !.incl = TRUE, !.fin = FALSE, !.acc = acc]

\* the subtensor.set_weights call of one attempt and what came of it
SubmitEv(n, out, acc) ==
    [Ev("set_weights", n, out) EXCEPT
        !.incl = TRUE, !.fin = TRUE, !.acc = acc]

SleepEv(n) ==
    [Ev("sleep", n, "") EXCEPT !.secs = RetryDelay]

NoResult ==
    [kind |-> "none", value |-> FALSE, exc |-> "", msg |-> "",
     attempts |-> 0, cause |-> ""]

Return(v) ==
    [NoResult EXCEPT !.kind = "return", !.value = v]

Raise(exc, msg, n, cause) ==
    [kind |-> "raise", value |-> FALSE, exc |-> exc, msg |-> msg,
     attempts |-> n, cause |-> cause]

\* the rejection branch backing off once more after the last attempt
RetryAfterReject_late(a, m) ==
    a < m

\* "if attempt < max_retries - 1" of the rejection branch
RetryAfterReject(a, m) ==
    a < m - 1

\* the network-error clause giving up one attempt early
RetryAfterNetworkError_early(a, m) ==
    a < m - 2

\* the network-error clause never retrying
RetryAfterNetworkError_never(a, m) ==
    FALSE

\* the network-error clause backing off once more after the last attempt
RetryAfterNetworkError_late(a, m) ==
    a < m

\* "if attempt < max_retries - 1" of the network-error clause
RetryAfterNetworkError(a, m) ==
    a < m - 1

\* the catch-all clause backing off once more after the last attempt
RetryAfterError_late(a, m) ==
    a < m

\* "if attempt < max_retries - 1" of the catch-all clause
RetryAfterError(a, m) ==
    a < m - 1

\* the empty check left out
NothingToCommit_never(u) ==
    FALSE

\* "if not uids" after processing
NothingToCommit(u) ==
    u = <<>>

\* the statements after the for loop, the last error kept on the instance
\* from one call to the next
FallThrough_stale(err, m) ==
    IF err # "None" \/ prev.result.kind = "raise"
        THEN Raise("WeightSettingError", "after_attempts", m, err)
    ELSE Return(FALSE)

\* the statements after the for loop
FallThrough(err, m) ==
    IF err # "None"
        THEN Raise("WeightSettingError", "after_attempts", m, err)
    ELSE Return(FALSE)

\* both except clauses raising the same message, the cause dropped
LastAttemptError_same(e, m) ==
    Raise("WeightSettingError", "after_attempts", m, "")

\* what an except clause of the attempt loop raises on the last attempt
LastAttemptError(e, m) ==
    IF IsNetworkClass(e)
        THEN Raise("WeightSettingError", "after_attempts_network", m, e)
    ELSE Raise("WeightSettingError", "after_attempts_error", m, e)

\* the first try block letting an unexpected exception through as it is
ProcessingError_raw(e) ==
    IF e = "WeightProcessingError"
        THEN Raise("WeightProcessingError", "process", 0, "")
    ELSE Raise(e, "", 0, "")

\* what the first try block raises for an exception e
ProcessingError(e) ==
    IF e = "WeightProcessingError"
        THEN Raise("WeightProcessingError", "process", 0, "")
    ELSE Raise("WeightProcessingError", "unexpected", 0, e)

CommitKeys ==
    {<<"0">>, <<"1">>, <<"-", "5">>, <<"x">>}

CommitData ==
    {NumData(1), NumData(3), NumData(0), NotDictData}

CommitBurns ==
    {<<0, 1>>, <<1, 4>>, <<1, 1>>, <<5, 4>>}

(* ------------------------- reading the trace ---------------------------- *)

IsSubmit(e) ==
    e.ev = "set_weights"

IsSleep(e) ==
    e.ev = "sleep"

IsBlock(e) ==
    e.ev = "get_current_block"

IsAudit(e) ==
    e.ev = "audit"

Submits ==
    SelectSeq(trace, IsSubmit)

Sleeps ==
    SelectSeq(trace, IsSleep)

Blocks ==
    SelectSeq(trace, IsBlock)

Audits ==
    SelectSeq(trace, IsAudit)

\* the first k submission calls were made on attempts 1..k and each raised a
\* network-class error
FirstKTransient(k) ==
    /\ Len(Submits) >= k
    /\ \A i \in 1..k : Submits[i].n = i /\ Submits[i].out = "transient"

LastEv ==
    trace[Len(trace)]

\* how a finished call went, read from what it did: the processed vector was
\* empty; every attempt's submission was rejected; every attempt's submission
\* raised a network-class error; the call was ended by an error outside
\* that class; anything else
TermClass ==
    IF trace = <<>> THEN "other"
    ELSE IF LastEv.ev = "process_weights" /\ LastEv.out = "ok" THEN "empty"
    ELSE IF /\ max_retries >= 1
            /\ Len(Submits) = max_retries
            /\ \A i \in 1..max_retries : Submits[i].out = "reject"
        THEN "rejected"
    ELSE IF max_retries >= 1 /\ FirstKTransient(max_retries)
        THEN "transient_exhausted"
    ELSE IF /\ LastEv.ev \in {"get_current_block", "set_weights"}
            /\ LastEv.out = "fatal"
        THEN "fatal"
    ELSE "other"

NoPrev ==
    [cls |-> "none", result |-> NoResult]

NoArgs ==
    [given |-> FALSE, api |-> <<>>, burn |-> Zero]

Args(api, burn) ==
    [given |-> TRUE, api |-> api, burn |-> burn]

NoOutput ==
    [st |-> "none", exc |-> "", uids |-> <<>>, weights |-> <<>>]

Init ==
    /\ self = [wallet |-> "wallet", netuid |-> 120]
    /\ pc = "idle"
    /\ uids = <<>>
    /\ weights = <<>>
    /\ max_retries = 0
    /\ attempt = 0
    /\ last_error = "None"
    /\ result = NoResult
    /\ trace = <<>>
    /\ applied = 0
    /\ prev = NoPrev
    /\ args = NoArgs
    /\ pin = NoArgs
    /\ pout = NoOutput
    /\ RangeIdle
    /\ MinersIdle

Ends(r, tr) ==
    /\ pc' = "done"
    /\ result' = r
    /\ trace' = tr

\* set_weights up to the attempt loop: get_subtensor, process_weights, the
\* empty check, the audit lines, and a loop of zero iterations.  The trace
\* keeps the awaited calls and the UID lines; the other log lines (the
\* miner count, the UID 0 burn line) are not recorded.
Call(api, burn, m, sub) ==
    /\ pc = "idle"
    /\ max_retries' = m
    /\ attempt' = 0
    /\ last_error' = "None"
    /\ applied' = 0
    /\ UNCHANGED <<self, prev>>
    /\ LET t1 == <<Ev("get_subtensor", 0, IF sub = "ok" THEN "ok" ELSE ErrClass(sub))>>
           pw == process_weights(api, burn)
           t2 == t1 \o <<Ev("process_weights", 0, pw.st)>>
           t3 == t2 \o AuditLines(pw.uids, pw.weights)
       IN  IF sub # "ok"
               THEN /\ Ends(ProcessingError(sub), t1)
                    /\ UNCHANGED <<uids, weights>>
           ELSE IF pw.st = "raise"
               THEN /\ Ends(ProcessingError(pw.exc), t2)
                    /\ UNCHANGED <<uids, weights>>
           ELSE IF NothingToCommit(pw.uids)
               THEN /\ Ends(Return(FALSE), t2)
                    /\ uids' = pw.uids
                    /\ weights' = pw.weights
           ELSE /\ uids' = pw.uids
                /\ weights' = pw.weights
                /\ IF 0 < m
                       THEN /\ pc' = "get_current_block"
                            /\ trace' = t3
                            /\ UNCHANGED result
                   ELSE Ends(FallThrough("None", m), t3)

\* an except clause of the attempt loop, for exception e, after trace tr
OnError(e, tr) ==
    /\ last_error' = e
    /\ IF (IF IsNetworkClass(e)
               THEN RetryAfterNetworkError(attempt, max_retries)
           ELSE RetryAfterError(attempt, max_retries))
           THEN /\ pc' = "sleep"
                /\ trace' = tr
                /\ UNCHANGED result
       ELSE Ends(LastAttemptError(e, max_retries), tr)

\* "Attempt n/max", then await subtensor.get_current_block()
GetCurrentBlock(out) ==
    /\ pc = "get_current_block"
    /\ LET tr == trace \o <<Ev("attempt", attempt + 1, ""),
                           Ev("get_current_block", attempt + 1,
                              IF out = "ok" THEN "ok" ELSE ErrClass(out))>>
       IN  IF out = "ok"
               THEN /\ pc' = "set_weights"
                    /\ trace' = tr
                    /\ UNCHANGED <<last_error, result>>
           ELSE OnError(out, tr)
    /\ UNCHANGED <<self, uids, weights, max_retries, attempt, applied, prev>>
    /\ UNCHANGED <<args, pin, pout, rangeVars, minerVars>>

\* await subtensor.set_weights(...): the ledger confirms, rejects, or the
\* call raises; acc says whether the ledger applied the update.  A
\* confirmation is an applied update, a rejection is not; a call that
\* raises may have reached the ledger or not.
SetWeights(out, acc) ==
    /\ pc = "set_weights"
    /\ out = "confirm" => acc
    /\ out = "reject" => ~ acc
    /\ applied' = IF acc THEN applied + 1 ELSE applied
    /\ LET tr == Append(trace,
                    SubmitEv(attempt + 1,
                             IF out \in Exceptions THEN ErrClass(out) ELSE out,
                             acc))
       IN  IF out = "confirm"
               THEN /\ Ends(Return(TRUE), tr)
                    /\ UNCHANGED last_error
           ELSE IF out = "reject"
               THEN /\ UNCHANGED last_error
                    /\ IF RetryAfterReject(attempt, max_retries)
                           THEN /\ pc' = "sleep"
                                /\ trace' = tr
                                /\ UNCHANGED result
                       ELSE Ends(Return(FALSE), tr)
           ELSE OnError(out, tr)
    /\ UNCHANGED <<self, uids, weights, max_retries, attempt, prev>>
    /\ UNCHANGED <<args, pin, pout, rangeVars, minerVars>>

\* await asyncio.sleep(60); continue
Sleep ==
    /\ pc = "sleep"
    /\ LET tr == Append(trace, SleepEv(attempt + 1))
       IN  IF attempt + 1 < max_retries
               THEN /\ attempt' = attempt + 1
                    /\ pc' = "get_current_block"
                    /\ trace' = tr
                    /\ UNCHANGED result
           ELSE /\ Ends(FallThrough(last_error, max_retries), tr)
                /\ UNCHANGED attempt
    /\ UNCHANGED <<self, uids, weights, max_retries, last_error, applied,
                   prev>>
    /\ UNCHANGED <<args, pin, pout, rangeVars, minerVars>>

\* the caller has the outcome; the instance is free for the next round
FinishTo(p) ==
    /\ pc = "done"
    /\ pc' = "idle"
    /\ uids' = <<>>
    /\ weights' = <<>>
    /\ max_retries' = 0
    /\ attempt' = 0
    /\ last_error' = "None"
    /\ result' = NoResult
    /\ trace' = <<>>
    /\ applied' = 0
    /\ prev' = p
    /\ args' = NoArgs
    /\ UNCHANGED <<self, pin, pout, rangeVars, minerVars>>

Finish ==
    FinishTo(prev)

\* the same, the observer noting how the call went and what it gave
FinishNoted ==
    FinishTo([cls |-> TermClass, result |-> result])

\* a caller starts a commit on the idle instance
set_weights ==
    /\ pc = "idle"
    /\ \E api \in ApiMaps(CommitKeys, CommitData, MaxCommitEntries),
          burn \in CommitBurns,
          m \in (-1)..MaxRetriesBound,
          sub \in {"ok"} \cup Exceptions :
            /\ Call(api, burn, m, sub)
            /\ UNCHANGED <<args, pin, pout, rangeVars, minerVars>>

Next ==
    \/ set_weights
    \/ \E out \in {"ok"} \cup Exceptions : GetCurrentBlock(out)
    \/ \E out \in {"confirm", "reject"} \cup Exceptions, acc \in BOOLEAN :
            SetWeights(out, acc)
    \/ Sleep
    \/ Finish

Spec ==
    Init /\ [][Next]_vars

\* Two calls in a row on one instance, the first one's class and result
\* kept for comparison with the second's.
PairKeys ==
    {<<"1">>}

PairData ==
    {NumData(1), NumData(0), NotDictData}

PairBurns ==
    {<<0, 1>>, <<5, 4>>, <<-1, 4>>}

set_weights_pair ==
    /\ pc = "idle"
    /\ \E api \in ApiMaps(PairKeys, PairData, Cardinality(PairKeys)),
          burn \in PairBurns,
          m \in (-1)..MaxRetriesBound,
          sub \in {"ok"} \cup Exceptions :
            /\ Call(api, burn, m, sub)
            /\ args' = Args(api, burn)
            /\ UNCHANGED <<pin, pout, rangeVars, minerVars>>

NextPair ==
    \/ set_weights_pair
    \/ \E out \in {"ok"} \cup Exceptions : GetCurrentBlock(out)
    \/ \E out \in {"confirm", "reject"} \cup Exceptions, acc \in BOOLEAN :
            SetWeights(out, acc)
    \/ Sleep
    \/ FinishNoted

SpecPair ==
    Init /\ [][NextPair]_vars

(* ----------------------- process_weights on its own --------------------- *)

ProcKeys ==
    {<<"0">>, <<"0", "0">>, <<"1">>, <<"0", "1">>, <<"-", "5">>, <<"x">>}

ProcData ==
    {NumData(1), NumData(3), NumData(0), NumData(-1), MissingData,
     BadStrData, NotDictData}

ProcBurns ==
    {<<0, 1>>, <<1, 4>>, <<99, 100>>, <<1, 1>>, <<5, 4>>}

\* the scenario of the specification's section 8
ScenarioApi ==
    <<[key |-> <<"1">>, data |-> NumData(3)],
      [key |-> <<"2">>, data |-> NumData(1)],
      [key |-> <<"-", "5">>, data |-> NumData(4)]>>

ProcInputs ==
    {Args(api, burn) : api \in ApiMaps(ProcKeys, ProcData, MaxProcEntries)
                                 \cup {ScenarioApi},
                       burn \in ProcBurns}

ProcInit ==
    /\ self = [wallet |-> "wallet", netuid |-> 120]
    /\ pc = "idle"
    /\ uids = <<>>
    /\ weights = <<>>
    /\ max_retries = 0
    /\ attempt = 0
    /\ last_error = "None"
    /\ result = NoResult
    /\ trace = <<>>
    /\ applied = 0
    /\ prev = NoPrev
    /\ args = NoArgs
    /\ pin \in ProcInputs
    /\ pout = NoOutput
    /\ RangeIdle
    /\ MinersIdle

\* await self.process_weights(api_weights, burn_percentage)
Process ==
    /\ pout = NoOutput
    /\ pout' = process_weights(pin.api, pin.burn)
    /\ UNCHANGED <<self, pc, uids, weights, max_retries, attempt, last_error,
                   result, trace, applied, prev, args, pin>>
    /\ UNCHANGED <<rangeVars, minerVars>>

NextProc ==
    Process

SpecProc ==
    ProcInit /\ [][NextProc]_vars

(* ------------------------------- C1 ------------------------------------- *)

\* C1: for every max_retries >= 1 and k < max_retries, when the submission
\* call raises a network-class error on attempts 1..k and confirms on attempt
\* k+1, the call returns True after exactly k+1 submission calls and exactly
\* k sleeps; and as long as the first k failures leave budget, the call has
\* not ended before attempt k+1 (it is sleeping or making that attempt).
C1_TransientThenConfirm ==
    \A k \in 0..MaxRetriesBound :
        (max_retries >= 1 /\ k < max_retries /\ FirstKTransient(k)) =>
            /\ (/\ Len(Submits) = k + 1
                /\ Submits[k + 1].n = k + 1
                /\ Submits[k + 1].out = "confirm")
               => /\ pc = "done"
                  /\ result = Return(TRUE)
                  /\ Len(Sleeps) = k
                  /\ LastEv = Submits[k + 1]
            /\ (k >= 1 /\ Len(Submits) = k /\ Len(Blocks) = k)
               => /\ pc \in {"sleep", "get_current_block"}
                  /\ result = NoResult
                  /\ Len(Sleeps) = (IF pc = "sleep" THEN k - 1 ELSE k)
            /\ (k >= 1 /\ Len(Submits) = k /\ Len(Blocks) = k + 1
                      /\ Blocks[k + 1].out = "ok")
               => /\ pc = "set_weights"
                  /\ Len(Sleeps) = k

\* two network errors, then a confirmation on the third of three attempts
C1_Witness ==
    /\ pc = "done"
    /\ max_retries = 3
    /\ FirstKTransient(2)
    /\ Len(Submits) = 3
    /\ Submits[3].out = "confirm"
    /\ result = Return(TRUE)

(* ------------------------------- C2 ------------------------------------- *)

\* C2: when the submission call raises a network-class error on every one of
\* the max_retries attempts, the call ends in failure (WeightSettingError,
\* naming max_retries attempts) after exactly max_retries submission calls
\* and max_retries - 1 sleeps, the failed submission being the last thing
\* done; and no attempt beyond max_retries is ever started.
C2_TransientExhausted ==
    /\ \A i \in 1..Len(trace) :
           trace[i].ev = "attempt" => trace[i].n <= max_retries
    /\ (max_retries >= 1 /\ FirstKTransient(max_retries)) =>
           /\ pc = "done"
           /\ IsNetworkClass(last_error)
           /\ result = Raise("WeightSettingError", "after_attempts_network",
                             max_retries, last_error)
           /\ Len(Submits) = max_retries
           /\ Len(Sleeps) = max_retries - 1
           /\ LastEv = Submits[max_retries]

\* three attempts, three network errors
C2_Witness ==
    /\ pc = "done"
    /\ max_retries = 3
    /\ FirstKTransient(3)
    /\ result.exc = "WeightSettingError"

(* ------------------------------- C3 ------------------------------------- *)

\* C3 as claimed: a submission call that raises an error outside the network
\* class ends the call at once: nothing follows it in the trace.
C3_FatalEndsCommit ==
    \A i \in 1..Len(trace) :
        (IsSubmit(trace[i]) /\ trace[i].out = "fatal") =>
            i = Len(trace) /\ pc = "done"

\* C3 as amended: an error outside the network class raised by the
\* submission call on attempt n is handled like a network error.  With
\* n < max_retries exactly one sleep follows and then attempt n+1 starts;
\* with n = max_retries the call ends at once with WeightSettingError and no
\* sleep.  So a fatal error on the first attempt ends the call after one
\* attempt and no sleep only when max_retries = 1.
C3_FatalRetried ==
    \A i \in 1..Len(trace) :
        (IsSubmit(trace[i]) /\ trace[i].out = "fatal") =>
            IF trace[i].n < max_retries
                THEN /\ i = Len(trace) => pc = "sleep" /\ result = NoResult
                     /\ i < Len(trace) => IsSleep(trace[i + 1])
                     /\ i + 1 = Len(trace) => pc = "get_current_block"
                     /\ i + 1 < Len(trace) =>
                            /\ trace[i + 2].ev = "attempt"
                            /\ trace[i + 2].n = trace[i].n + 1
            ELSE /\ i = Len(trace)
                 /\ pc = "done"
                 /\ result = Raise("WeightSettingError", "after_attempts_error",
                                   max_retries, last_error)
                 /\ ~ IsNetworkClass(last_error)

\* a fatal error on the first of three attempts, and the call sleeping
C3_Witness ==
    /\ max_retries = 3
    /\ pc = "sleep"
    /\ Len(Submits) = 1
    /\ Submits[1].out = "fatal"
    /\ LastEv = Submits[1]

(* ------------------------------- C4 ------------------------------------- *)

\* C4 as claimed: the call always ends by returning a value, never by
\* raising.
C4_NeverRaises ==
    pc = "done" => result.kind = "return"

\* a ledger call of the attempt loop raised on the last attempt
LastAttemptRaised ==
    /\ trace # <<>>
    /\ LastEv.ev \in {"get_current_block", "set_weights"}
    /\ LastEv.out \in {"transient", "fatal"}
    /\ LastEv.n = max_retries

\* get_subtensor or process_weights raised
ProcessingRaised ==
    /\ trace # <<>>
    /\ \/ LastEv.ev = "get_subtensor" /\ LastEv.out # "ok"
       \/ LastEv.ev = "process_weights" /\ LastEv.out = "raise"

\* C4 as amended: the call ends either by returning a bool or by raising one
\* of its two documented exceptions, never another one: it raises
\* WeightProcessingError exactly when get_subtensor or process_weights
\* raised, it raises WeightSettingError (naming max_retries, chained to the
\* last error) exactly when a ledger call of the last attempt raised, and it
\* returns a bool in every other case.
C4_ReturnsOrRaisesDocumented ==
    pc = "done" =>
        /\ result.kind \in {"return", "raise"}
        /\ result.kind = "raise" =>
               result.exc \in {"WeightProcessingError", "WeightSettingError"}
        /\ (result.kind = "raise" /\ result.exc = "WeightProcessingError")
               <=> ProcessingRaised
        /\ (result.kind = "raise" /\ result.exc = "WeightSettingError")
               <=> LastAttemptRaised
        /\ (result.kind = "raise" /\ result.exc = "WeightSettingError") =>
               result.attempts = max_retries /\ result.cause = last_error

\* a call that ended by raising WeightSettingError
C4_Witness ==
    /\ pc = "done"
    /\ result.kind = "raise"
    /\ result.exc = "WeightSettingError"
    /\ LastAttemptRaised

(* ------------------------------- C5 ------------------------------------- *)

FourClasses ==
    {"empty", "rejected", "transient_exhausted", "fatal"}

\* this call and the previous one ended in different ones of the four
\* terminal states, both with max_retries >= 1
TwoDifferentEnds ==
    /\ pc = "done"
    /\ max_retries >= 1
    /\ prev # NoPrev
    /\ TermClass \in FourClasses
    /\ prev.cls \in FourClasses
    /\ prev.cls # TermClass

\* C5 as claimed: two calls that ended in different ones of the four
\* terminal states (empty vector, rejected on every attempt, network errors
\* until exhaustion, fatal error) never give the caller the same result.
C5_AllDistinguishable ==
    TwoDifferentEnds => prev.result # result

\* C5 as amended: the empty vector and rejection on every attempt both give
\* the bare return value False and cannot be told apart from the result;
\* every other pair of the four is distinguishable: exhaustion by network
\* errors and a fatal error raise WeightSettingError with different messages
\* and causes, and neither is a returned False.
C5_DistinguishableButFalse ==
    /\ (pc = "done" /\ TermClass \in {"empty", "rejected"})
           => result = Return(FALSE)
    /\ (TwoDifferentEnds /\ {prev.cls, TermClass} # {"empty", "rejected"})
           => prev.result # result

\* network-error exhaustion followed by a fatal end with the same budget
C5_Witness ==
    /\ TwoDifferentEnds
    /\ prev.cls = "transient_exhausted"
    /\ TermClass = "fatal"
    /\ prev.result.attempts = max_retries
    /\ result.exc = prev.result.exc

(* ------------------------------- C6 ------------------------------------- *)

\* C6: when the submission call returns False on attempt n: with
\* n < max_retries exactly one sleep follows and then attempt n+1 starts;
\* with n = max_retries the call ends at once in failure (it returns False),
\* max_retries attempts made, and no sleep follows the last rejection.
C6_RejectRetried ==
    \A i \in 1..Len(trace) :
        (IsSubmit(trace[i]) /\ trace[i].out = "reject") =>
            IF trace[i].n < max_retries
                THEN /\ i = Len(trace) => pc = "sleep" /\ result = NoResult
                     /\ i < Len(trace) => IsSleep(trace[i + 1])
                     /\ i + 1 = Len(trace) => pc = "get_current_block"
                     /\ i + 1 < Len(trace) =>
                            /\ trace[i + 2].ev = "attempt"
                            /\ trace[i + 2].n = trace[i].n + 1
            ELSE /\ trace[i].n = max_retries
                 /\ i = Len(trace)
                 /\ pc = "done"
                 /\ result = Return(FALSE)

\* rejected on both of two attempts, one sleep in between
C6_Witness ==
    /\ pc = "done"
    /\ max_retries = 2
    /\ Len(Submits) = 2
    /\ Submits[1].out = "reject"
    /\ Submits[2].out = "reject"
    /\ Len(Sleeps) = 1
    /\ result = Return(FALSE)

(* ------------------------------- C7 ------------------------------------- *)

\* C7 as claimed: a submission the ledger applied is never followed by
\* another submission of the same call, so the ledger applies at most one
\* submission per call.
C7_AppliedAtMostOnce ==
    /\ applied <= 1
    /\ \A i \in 1..Len(Submits) : Submits[i].acc => i = Len(Submits)

\* a submission the ledger applied while the call raised
AppliedButRaised(e) ==
    IsSubmit(e) /\ e.acc /\ e.out \in {"transient", "fatal"}

\* C7 as amended: a submission whose call returned a confirmation is never
\* followed by another submission, ledger call or sleep of the same call.
\* A submission the ledger applied but whose call raised is not known to be
\* applied: with budget left the call sleeps and submits the vector again.
\* At most one submission per call is applied only in runs where no applied
\* submission's call raised; in general up to max_retries are.
C7_ResubmitsUnlessConfirmed ==
    /\ \A i \in 1..Len(trace) :
           (IsSubmit(trace[i]) /\ trace[i].out = "confirm") =>
               i = Len(trace) /\ pc = "done"
    /\ \A i \in 1..Len(trace) :
           (AppliedButRaised(trace[i]) /\ trace[i].n < max_retries
                /\ i = Len(trace)) => pc = "sleep"
    /\ (\A i \in 1..Len(trace) : ~ AppliedButRaised(trace[i])) => applied <= 1
    /\ applied <= Len(Submits)
    /\ Len(Submits) <= max_retries \/ Len(Submits) = 0

\* the ledger applied the vector twice in one call: the first submission
\* timed out on the client after being applied, the second was confirmed
C7_Witness ==
    /\ pc = "done"
    /\ applied = 2
    /\ Len(Submits) = 2
    /\ Submits[1].out = "transient"
    /\ Submits[1].acc
    /\ Submits[2].out = "confirm"

(* ------------------------------- C8 ------------------------------------- *)

\* C8: the call returns True exactly when one of its submission calls, made
\* with wait_for_inclusion and wait_for_finalization both true, returned a
\* confirmation; that submission is then the last thing the call did (no
\* further call, no sleep), so True never follows an attempt that raised or
\* returned False.
C8_SuccessIffConfirmed ==
    /\ \A i \in 1..Len(Submits) : Submits[i].incl /\ Submits[i].fin
    /\ result = Return(TRUE) <=>
           \E i \in 1..Len(Submits) : Submits[i].out = "confirm"
    /\ result = Return(TRUE) =>
           /\ pc = "done"
           /\ IsSubmit(LastEv)
           /\ LastEv.out = "confirm"
    /\ \A i \in 1..Len(trace) :
           (IsSubmit(trace[i]) /\ trace[i].out = "confirm") => i = Len(trace)

\* a confirmation on the second attempt, after a rejection
C8_Witness ==
    /\ pc = "done"
    /\ result = Return(TRUE)
    /\ Len(Submits) = 2
    /\ Submits[1].out = "reject"
    /\ Submits[2].out = "confirm"
    /\ Submits[2].incl
    /\ Submits[2].fin

(* ------------------------------- C9 ------------------------------------- *)

\* process_weights has returned the empty vector to the call
EmptyVectorEnd ==
    /\ Len(trace) >= 2
    /\ trace[2].ev = "process_weights"
    /\ trace[2].out = "ok"
    /\ uids = <<>>

\* C9 as claimed: with an empty processed vector the call ends without
\* having acquired the ledger handle, queried the block, submitted or slept.
C9_NoLedgerContact ==
    EmptyVectorEnd =>
        \A i \in 1..Len(trace) :
            trace[i].ev \notin
                {"get_subtensor", "get_current_block", "set_weights", "sleep"}

\* C9 as amended: with an empty processed vector the call returns False
\* with no block query, no submission call and no sleep, the ledger applying
\* nothing; but the ledger handle has been acquired by then, get_subtensor
\* being awaited before the weights are processed.
C9_EmptyOnlyAcquiresHandle ==
    EmptyVectorEnd =>
        /\ pc = "done"
        /\ result = Return(FALSE)
        /\ uids = <<>>
        /\ trace = <<Ev("get_subtensor", 0, "ok"),
                     Ev("process_weights", 0, "ok")>>
        /\ applied = 0

\* an empty vector with three attempts allowed
C9_Witness ==
    /\ EmptyVectorEnd
    /\ max_retries = 3
    /\ trace[1].ev = "get_subtensor"

(* ------------------------------- C10 ------------------------------------ *)

\* C10 as claimed: every submission call is preceded by audit lines emitted
\* within its own attempt, that is, after the sleep that ended the previous
\* attempt.
C10_AuditEveryAttempt ==
    \A j \in 1..Len(trace) :
        IsSubmit(trace[j]) =>
            \E i \in 1..(j - 1) :
                /\ IsAudit(trace[i])
                /\ \A k \in i..j : ~ IsSleep(trace[k])

\* C10 as amended: the audit record, one line per identifier of the vector
\* in order, is emitted once per call, right after processing and before
\* the attempt loop; every submission call of the call is preceded by it,
\* and it is not emitted again on later attempts.
C10_AuditOncePerCall ==
    (pc # "idle" /\ uids # <<>>) =>
        /\ Len(Audits) = Len(uids)
        /\ \A i \in 1..Len(uids) :
               Audits[i].uid = uids[i] /\ Audits[i].share = weights[i]
        /\ SubSeq(trace, 3, 2 + Len(uids)) = Audits
        /\ \A j \in 1..Len(trace) :
               trace[j].ev \in {"attempt", "get_current_block", "set_weights",
                                "sleep"} => j > 2 + Len(uids)

\* the second attempt's submission made, two identifiers, two audit lines
C10_Witness ==
    /\ Len(Submits) = 2
    /\ Len(uids) = 2
    /\ Len(Audits) = 2
    /\ Len(Sleeps) = 1

(* ------------------------------- C11 ------------------------------------ *)

\* process_weights has returned a vector that is not empty
NonEmptyOutput ==
    pout.st = "ok" /\ pout.uids # <<>>

\* C11: whenever process_weights returns a non-empty vector, uids and
\* weights have the same length, every weight is >= 0 and the weights sum to
\* exactly 1.
C11_SharesSumToOne ==
    NonEmptyOutput =>
        /\ Len(pout.uids) = Len(pout.weights)
        /\ \A i \in 1..Len(pout.weights) : RatLe(Zero, pout.weights[i])
        /\ RatSum(pout.weights) = One

\* two valid entries and a burn of one quarter
C11_Witness ==
    /\ NonEmptyOutput
    /\ pin.burn = <<1, 4>>
    /\ Len(pout.uids) = 3
    /\ RatSum(pout.weights) = One

(* ------------------------------- C12 ------------------------------------ *)

\* C12: for every input, also one whose distinct keys parse to the same
\* integer ("1" and "01", "0" and "00"), every identifier process_weights
\* returns is >= 0 and occurs exactly once.
C12_UniqueNonNegative ==
    pout.st = "ok" =>
        /\ \A i \in 1..Len(pout.uids) : pout.uids[i] >= 0
        /\ \A i, j \in 1..Len(pout.uids) :
               i # j => pout.uids[i] # pout.uids[j]

(* ------------------------------- C13 ------------------------------------ *)

\* an entry the parse loop keeps: the key parses to an integer >= 0 and the
\* value carries a weight that converts to a float > 0
IsValidEntry(e) ==
    /\ ParseInt(e.key).ok
    /\ ParseInt(e.key).val >= 0
    /\ e.data.kind = "num"
    /\ e.data.w[1] > 0

ValidEntries(api) ==
    SelectSeq(api, IsValidEntry)

\* the identifiers and weights of the valid entries, in input order
ValidUids(api) ==
    [i \in 1..Len(ValidEntries(api)) |-> ParseInt(ValidEntries(api)[i].key).val]

ValidWeights(api) ==
    [i \in 1..Len(ValidEntries(api)) |-> ValidEntries(api)[i].data.w]

HasZero(u) ==
    \E i \in 1..Len(u) : u[i] = 0

\* C13 as claimed: with a burn of 1.0 the output is exactly ([0], [1.0]),
\* whatever the input.
C13_AllBurnIsZeroOnly ==
    (pin.burn = One /\ pout # NoOutput) =>
        pout = Vec(<<0>>, <<One>>)

\* C13 as amended: with a burn of 1.0 and at least one valid entry, the
\* output holds identifier 0 with share 1.0 (the input's first 0, or a 0 put
\* in front when the input has none) and every other valid entry of the
\* input, still present, with share 0; with no valid entry the output is
\* empty.
C13_AllBurnKeepsZeroShares ==
    (pin.burn = One /\ pout.st = "ok") =>
        IF ValidEntries(pin.api) = <<>> THEN pout = Vec(<<>>, <<>>)
        ELSE /\ pout.uids = IF HasZero(ValidUids(pin.api))
                                THEN ValidUids(pin.api)
                            ELSE <<0>> \o ValidUids(pin.api)
             /\ \E k \in 1..Len(pout.uids) :
                    /\ pout.uids[k] = 0
                    /\ \A j \in 1..(k - 1) : pout.uids[j] # 0
                    /\ pout.weights[k] = One
                    /\ \A i \in 1..Len(pout.uids) :
                           i # k => pout.weights[i] = Zero

\* a burn of 1.0 and one valid entry for identifier 1, which stays
C13_Witness ==
    /\ pin.burn = One
    /\ pout = Vec(<<0, 1>>, <<One, Zero>>)

(* ------------------------------- C14 ------------------------------------ *)

\* an entry whose key parses to a negative integer (a "system" entry)
IsSystemEntry(e) ==
    ParseInt(e.key).ok /\ ParseInt(e.key).val < 0

\* a non-empty input made only of system entries with positive weights
SystemOnly(api) ==
    /\ api # <<>>
    /\ \A i \in 1..Len(api) :
           /\ IsSystemEntry(api[i])
           /\ api[i].data.kind = "num"
           /\ api[i].data.w[1] > 0

\* the input {"1": 3.0, "2": 1.0, "-5": 4.0} with a burn of 0.25
IsScenario ==
    pin.api = ScenarioApi /\ pin.burn = <<1, 4>>

\* C14 as claimed: a system entry's weight counts toward the total and is
\* folded into identifier 0: a system-only input with burn 0 gives
\* ([0], [1.0]) and the scenario gives identifiers [0, 1, 2] with shares
\* [0.625, 0.28125, 0.09375].
C14_SystemFoldedIntoZero ==
    /\ (SystemOnly(pin.api) /\ pin.burn = Zero /\ pout # NoOutput) =>
           pout = Vec(<<0>>, <<One>>)
    /\ (IsScenario /\ pout # NoOutput) =>
           pout = Vec(<<0, 1, 2>>, << <<5, 8>>, <<9, 32>>, <<3, 32>> >>)

\* C14 as amended: a system entry is dropped and counts toward nothing: the
\* output never holds a negative identifier, a system-only input gives the
\* empty vector for every valid burn, the scenario gives identifiers
\* [0, 1, 2] with shares [0.25, 0.5625, 0.1875], and the shares are those of
\* the valid entries alone.
C14_SystemDropped ==
    /\ pout.st = "ok" =>
           /\ \A i \in 1..Len(pout.uids) : pout.uids[i] >= 0
           /\ Len(pout.uids) \in
                  {Len(ValidUids(pin.api)), Len(ValidUids(pin.api)) + 1}
    /\ (SystemOnly(pin.api) /\ BurnValid(pin.burn) /\ pout # NoOutput) =>
           pout = Vec(<<>>, <<>>)
    /\ (IsScenario /\ pout # NoOutput) =>
           pout = Vec(<<0, 1, 2>>, << <<1, 4>>, <<9, 16>>, <<3, 16>> >>)

\* the scenario has been processed
C14_Witness ==
    /\ IsScenario
    /\ pout.st = "ok"
    /\ pout.uids = <<0, 1, 2>>

(* ------------------------------- C15 ------------------------------------ *)

\* every entry carries a numeric weight <= 0 (true of the empty map)
AllNonPositive(api) ==
    \A i \in 1..Len(api) :
        /\ api[i].data.kind = "num"
        /\ api[i].data.w[1] <= 0

NonPositiveCallEnded ==
    /\ pc = "done"
    /\ args.given
    /\ args.api # <<>>
    /\ AllNonPositive(args.api)
    /\ Len(trace) >= 2
    /\ trace[2].ev = "process_weights"

\* C16: a non-empty input whose weights are all non-positive makes
\* processing raise WeightProcessingError, unlike the empty input, and the
\* call submits nothing.
C16_NonPositiveRaises ==
    NonPositiveCallEnded =>
        /\ trace[2].out = "raise"
        /\ result.kind = "raise"
        /\ result.exc = "WeightProcessingError"
        /\ Submits = <<>>

(* ------------------------------- C17 ------------------------------------ *)

\* a malformed entry: the key is no integer, or the value carries no
\* numeric weight (missing, not a number, or the value is no dict)
IsMalformed(e) ==
    \/ ~ ParseInt(e.key).ok
    \/ e.data.kind \in {"missing", "badstr", "none", "notdict"}

WellFormed(e) ==
    ~ IsMalformed(e)

WithoutMalformed(api) ==
    SelectSeq(api, WellFormed)

\* C17: a malformed entry is dropped and never escalates: process_weights
\* raises nothing because of it and returns what it returns for the input
\* with the malformed entries removed.
C17_MalformedDropped ==
    pout # NoOutput =>
        pout = process_weights(WithoutMalformed(pin.api), pin.burn)

(* ------------------------------- C18 ------------------------------------ *)

\* C18 (process_weights deterministic and stateless) has no formula here:
\* process_weights reads its two arguments and nothing of the instance, so
\* it is the operator process_weights(api, burn), and two evaluations of one
\* operator on equal arguments agree whatever the operator computes.

(* ------------------------------- C19 ------------------------------------ *)

\* the input C19 speaks of: every value a dict, no negative identifier,
\* the valid identifiers distinct, a positive total, and a burn in [0, 1)
PlainInput ==
    /\ \A i \in 1..Len(pin.api) :
           /\ pin.api[i].data.kind # "notdict"
           /\ ~ IsSystemEntry(pin.api[i])
    /\ \A i, j \in 1..Len(ValidUids(pin.api)) :
           i # j => ValidUids(pin.api)[i] # ValidUids(pin.api)[j]
    /\ ValidEntries(pin.api) # <<>>
    /\ RatLe(Zero, pin.burn)
    /\ RatLt(pin.burn, One)

\* (1 - b) * w / T
ScaledShare(w, T, b) ==
    RatMul(RatSub(One, b), RatDiv(w, T))

\* the share C19 gives to the identifier of valid entry k
ExpectedShare(k) ==
    LET T == RatSum(ValidWeights(pin.api))
        s == ScaledShare(ValidWeights(pin.api)[k], T, pin.burn)
    IN  IF ValidUids(pin.api)[k] = 0 THEN RatAdd(pin.burn, s) ELSE s

\* the positions of identifier u in the output
PositionsOf(u) ==
    {i \in 1..Len(pout.uids) : pout.uids[i] = u}

\* C19: for an input with no negative identifiers, distinct valid
\* identifiers, total T > 0 of the positive weights and burn b in [0, 1):
\* every valid identifier i # 0 is in the output with share
\* (1 - b) * w_i / T, identifier 0 has share b + (1 - b) * w_0 / T
\* (w_0 = 0 when the input has no 0) and is there whenever b > 0, and no
\* valid entry is removed or zeroed, whatever its share, even one under
\* MIN_WEIGHT_THRESHOLD.
C19_SharesByFormula ==
    (PlainInput /\ pout # NoOutput) =>
        /\ pout.st = "ok"
        /\ \A k \in 1..Len(ValidUids(pin.api)) :
               /\ Cardinality(PositionsOf(ValidUids(pin.api)[k])) = 1
               /\ \A i \in PositionsOf(ValidUids(pin.api)[k]) :
                      /\ pout.weights[i] = ExpectedShare(k)
                      /\ RatLt(Zero, pout.weights[i])
        /\ (RatLt(Zero, pin.burn) /\ ~ HasZero(ValidUids(pin.api))) =>
               /\ Cardinality(PositionsOf(0)) = 1
               /\ \A i \in PositionsOf(0) : pout.weights[i] = pin.burn

\* identifier 1 keeps a share of 0.0025, under MIN_WEIGHT_THRESHOLD
C19_Witness ==
    /\ PlainInput
    /\ pin.burn = <<99, 100>>
    /\ pout.st = "ok"
    /\ pout.uids = <<0, 1>>
    /\ pout.weights[2] = <<1, 400>>
    /\ RatLt(pout.weights[2], MIN_WEIGHT_THRESHOLD)

(* ------------------------------- C20 ------------------------------------ *)

\* the ledger calls of the attempt loop
IsLedgerCall(e) ==
    e.ev \in {"get_current_block", "set_weights"}

\* the positions in the trace of the ledger calls of attempt n
LedgerCallsOf(n) ==
    {i \in 1..Len(trace) : IsLedgerCall(trace[i]) /\ trace[i].n = n}

\* the attempts whose outcome is known
AttemptsOver ==
    {n \in 1..Len(trace) :
        /\ \E i \in 1..Len(trace) : trace[i].ev = "attempt" /\ trace[i].n = n
        /\ \/ pc \in {"sleep", "done"}
           \/ n <= attempt}

\* a ledger call that did not end the call with a confirmation
IsFailedCall(e) ==
    \/ e.ev = "get_current_block" /\ e.out # "ok"
    \/ e.ev = "set_weights" /\ e.out # "confirm"

\* C20 as claimed: each attempt issues exactly one ledger call, the
\* submission, and only the outcome of that submission uses the attempt up.
C20_OneLedgerCallPerAttempt ==
    \A n \in AttemptsOver :
        /\ Cardinality(LedgerCallsOf(n)) = 1
        /\ \A i \in LedgerCallsOf(n) : trace[i].ev = "set_weights"

\* C20 as amended: each attempt first queries the current block and then,
\* only if that query returned, submits: one or two ledger calls, one after
\* the other; a failed block query uses the attempt up as a failed
\* submission does.  Every attempt after the first comes right after exactly
\* one sleep of 60 s, the sleep right after the failed call of the attempt
\* before, and a call is begun only when the one before it has returned.
C20_BlockQueryThenSubmission ==
    /\ \A n \in AttemptsOver :
           /\ Cardinality({i \in LedgerCallsOf(n) : IsBlock(trace[i])}) = 1
           /\ Cardinality({i \in LedgerCallsOf(n) : IsSubmit(trace[i])}) <= 1
    /\ \A i \in 1..Len(trace) :
           /\ IsBlock(trace[i]) =>
                  /\ i > 1
                  /\ trace[i - 1].ev = "attempt"
                  /\ trace[i - 1].n = trace[i].n
           /\ IsSubmit(trace[i]) =>
                  /\ i > 1
                  /\ IsBlock(trace[i - 1])
                  /\ trace[i - 1].n = trace[i].n
                  /\ trace[i - 1].out = "ok"
           /\ (IsBlock(trace[i]) /\ trace[i].out = "ok" /\ i = Len(trace)) =>
                  pc = "set_weights"
           /\ IsSleep(trace[i]) =>
                  /\ i > 1
                  /\ IsFailedCall(trace[i - 1])
                  /\ trace[i - 1].n = trace[i].n
                  /\ trace[i].secs = RetryDelay
                  /\ IF i = Len(trace) THEN pc = "get_current_block"
                     ELSE /\ trace[i + 1].ev = "attempt"
                          /\ trace[i + 1].n = trace[i].n + 1
           /\ (trace[i].ev = "attempt" /\ trace[i].n >= 2) =>
                  /\ i > 2
                  /\ IsSleep(trace[i - 1])
                  /\ trace[i - 1].n = trace[i].n - 1
                  /\ ~ IsSleep(trace[i - 2])

\* attempt 1 was used up by a failed block query, with no submission;
\* attempt 2, after one sleep, queried the block and submitted
C20_Witness ==
    /\ pc = "done"
    /\ Cardinality(LedgerCallsOf(1)) = 1
    /\ \A i \in LedgerCallsOf(1) : IsBlock(trace[i]) /\ trace[i].out # "ok"
    /\ Cardinality(LedgerCallsOf(2)) = 2
    /\ Len(Sleeps) = 1
    /\ result = Return(TRUE)

(* ------------------------------- C21 ------------------------------------ *)

\* set_weights takes api_weights, burn_percentage and max_retries, and no
\* deadline.  A caller that wants one cancels the task running the call
\* (asyncio.wait_for, Task.cancel): CancelledError is then raised at the await
\* the call is suspended in, and, not being an Exception, passes both except
\* clauses of the loop.  A cancelled submission may or may not have been
\* applied by the ledger.
Cancel(acc) ==
    /\ pc \in {"get_current_block", "set_weights", "sleep"}
    /\ pc # "set_weights" => ~ acc
    /\ applied' = IF acc THEN applied + 1 ELSE applied
    /\ LET n == attempt + 1
           tr == CASE pc = "get_current_block" ->
                          trace \o <<Ev("attempt", n, ""),
                                     Ev("get_current_block", n, "cancelled")>>
                   [] pc = "set_weights" ->
                          Append(trace, SubmitEv(n, "cancelled", acc))
                   [] OTHER ->
                          Append(trace, [SleepEv(n) EXCEPT !.out = "cancelled"])
       IN  Ends(Raise("CancelledError", "", n, ""), tr)
    /\ UNCHANGED <<self, uids, weights, max_retries, attempt, last_error,
                   prev, args, pin, pout, rangeVars, minerVars>>

NextCancel ==
    \/ set_weights
    \/ \E out \in {"ok"} \cup Exceptions : GetCurrentBlock(out)
    \/ \E out \in {"confirm", "reject"} \cup Exceptions, acc \in BOOLEAN :
            SetWeights(out, acc)
    \/ Sleep
    \/ Finish
    \/ \E acc \in BOOLEAN : Cancel(acc)

SpecCancel ==
    Init /\ [][NextCancel]_vars

\* C21: a caller's deadline ends the call only between attempts: a
\* submission (or block query) in flight when it fires is awaited to its
\* outcome before the call ends.
C21_CancelBetweenAttempts ==
    \A i \in 1..Len(trace) :
        IsLedgerCall(trace[i]) => trace[i].out # "cancelled"

(* ------------------------------- C22 ------------------------------------ *)

\* what the caller is given, read from the call's own last step and its own
\* max_retries: returned or raised, the value, the exception, the message
\* and the attempt count
OwnOutcome ==
    CASE LastEv.ev = "get_subtensor" ->
             <<"raise", FALSE, "WeightProcessingError", "unexpected", 0>>
      [] LastEv.ev = "process_weights" /\ LastEv.out = "raise" ->
             <<"raise", FALSE, "WeightProcessingError",
               IF BurnValid(args.burn) THEN "unexpected" ELSE "process", 0>>
      [] LastEv.ev = "process_weights" /\ LastEv.out = "ok" ->
             <<"return", FALSE, "", "", 0>>
      [] LastEv.ev = "audit" ->
             <<"return", FALSE, "", "", 0>>
      [] IsSubmit(LastEv) /\ LastEv.out = "confirm" ->
             <<"return", TRUE, "", "", 0>>
      [] IsSubmit(LastEv) /\ LastEv.out = "reject" ->
             <<"return", FALSE, "", "", 0>>
      [] IsLedgerCall(LastEv) /\ LastEv.out = "transient" ->
             <<"raise", FALSE, "WeightSettingError",
               "after_attempts_network", max_retries>>
      [] IsLedgerCall(LastEv) /\ LastEv.out = "fatal" ->
             <<"raise", FALSE, "WeightSettingError",
               "after_attempts_error", max_retries>>
      [] OTHER -> <<"none", FALSE, "", "", 0>>

\* the attempt lines of the call so far
AttemptLines ==
    SelectSeq(trace, LAMBDA e : e.ev = "attempt")

\* C22: each call is a fresh run: the instance keeps its wallet and netuid
\* whatever the calls did; a call's attempts are numbered from 1 and are at
\* most its own max_retries; and what it gives the caller follows from its
\* own max_retries and the answers to its own calls, whatever the call
\* before it on the same instance gave.
C22_FreshRun ==
    /\ self = [wallet |-> "wallet", netuid |-> 120]
    /\ \A i \in 1..Len(AttemptLines) :
           /\ AttemptLines[i].n = i
           /\ i <= max_retries
    /\ pc \in {"get_current_block", "set_weights", "sleep"} =>
           Len(AttemptLines) \in {attempt, attempt + 1}
    /\ pc = "done" =>
           <<result.kind, result.value, result.exc, result.msg,
             result.attempts>> = OwnOutcome

\* after a call that raised, a call with max_retries = 0 on a non-empty
\* vector: no attempt, and False returned
C22_Witness ==
    /\ prev.result.kind = "raise"
    /\ prev.result.exc = "WeightSettingError"
    /\ pc = "done"
    /\ max_retries = 0
    /\ uids # <<>>
    /\ AttemptLines = <<>>
    /\ result = Return(FALSE)

(* ------------------------------- C23 ------------------------------------ *)

\* burn_percentage < 0.0 or burn_percentage > 1.0
OutsideUnit(b) ==
    RatLt(b, Zero) \/ RatLt(One, b)

\* a call given a burn percentage outside [0, 1] has ended, the ledger
\* handle acquired
BadBurnCallEnded ==
    /\ pc = "done"
    /\ args.given
    /\ OutsideUnit(args.burn)
    /\ trace # <<>>
    /\ trace[1].out = "ok"

\* C23: a burn percentage outside [0.0, 1.0] makes process_weights raise
\* WeightProcessingError before any entry is parsed, for every input map,
\* the empty one and one with an unparseable entry included; set_weights
\* re-raises it as it is, with no block query, no submission call and no
\* sleep.
C23_BadBurnRaisesFirst ==
    BadBurnCallEnded =>
        /\ process_weights(args.api, args.burn)
               = Raised("WeightProcessingError")
        /\ trace = <<Ev("get_subtensor", 0, "ok"),
                     Ev("process_weights", 0, "raise")>>
        /\ result = Raise("WeightProcessingError", "process", 0, "")
        /\ Blocks = <<>>
        /\ Submits = <<>>
        /\ Sleeps = <<>>
        /\ applied = 0

\* a burn of -0.25 given with an entry that would not parse
C23_Witness ==
    /\ BadBurnCallEnded
    /\ args.burn = <<-1, 4>>
    /\ Len(args.api) = 1
    /\ args.api[1].data = NotDictData
    /\ max_retries = 3
    /\ result.exc = "WeightProcessingError"

(* ------------------------------- C24 ------------------------------------ *)

\* a call on a non-empty processed vector has ended in failure: it returned
\* False or it raised
FailedOnVector ==
    /\ pc = "done"
    /\ uids # <<>>
    /\ \/ result = Return(FALSE)
       \/ result.kind = "raise"

\* C24: a call on a non-empty processed vector makes at least one submission
\* attempt before it reports failure, whatever max_retries is, 0 and negative
\* values included: it never fails with no submission call made.
C24_FailsOnlyAfterSubmitting ==
    FailedOnVector =>
        /\ AttemptLines # <<>>
        /\ Submits # <<>>

(* ------------------------------- C25 ------------------------------------ *)

\* get_subtensor raised at the start of the call
HandleFailed ==
    /\ trace # <<>>
    /\ trace[1].ev = "get_subtensor"
    /\ trace[1].out # "ok"

\* C25: when get_subtensor fails at the start of a call, with a network,
\* connection or timeout error as with any other, the call makes no retry,
\* no sleep, no block query and no submission call, and raises
\* WeightProcessingError, not WeightSettingError, whatever max_retries is.
C25_HandleFailureNotRetried ==
    HandleFailed =>
        /\ pc = "done"
        /\ Len(trace) = 1
        /\ result.kind = "raise"
        /\ result.exc = "WeightProcessingError"
        /\ result.msg = "unexpected"
        /\ result.cause \in Exceptions
        /\ ErrClass(result.cause) = trace[1].out
        /\ applied = 0

\* a network-class failure of get_subtensor with three attempts allowed
C25_Witness ==
    /\ HandleFailed
    /\ trace[1].out = "transient"
    /\ max_retries = 3
    /\ result.cause = "TimeoutError"
    /\ result.exc = "WeightProcessingError"

(* ----------------------- dataset range resolver -------------------------- *)

MaxValue == 5

\* what a resolver function gives: a range, None, or a raised ValueError
RangeOf(r) ==
    [kind |-> "range", range |-> r]

NoneRange ==
    [kind |-> "None", range |-> <<>>]

UnknownRangeType ==
    [kind |-> "ValueError", range |-> <<>>]

_build_range(value, range_type) ==
    IF range_type = "zero_to_value"
        THEN IF value <= 0 THEN RangeOf(<< <<0, 0>> >>)
             ELSE RangeOf(<< <<0, value - 1>> >>)
    ELSE UnknownRangeType

\* max(seg[1] for seg in old_range), of a non-empty old_range
MaxEnd(old_range) ==
    CHOOSE m \in {old_range[i][2] : i \in 1..Len(old_range)} :
        \A i \in 1..Len(old_range) : old_range[i][2] <= m

expand_dataset_range(old_range, new_value, range_type) ==
    IF range_type = "zero_to_value"
        THEN LET new_end == new_value - 1
             IN  IF new_end <= 0 THEN NoneRange
                 ELSE IF old_range = <<>> THEN RangeOf(<< <<0, new_end>> >>)
                 ELSE IF new_end <= MaxEnd(old_range) THEN NoneRange
                 ELSE RangeOf(Append(old_range,
                                     <<MaxEnd(old_range), new_end>>))
    ELSE UnknownRangeType

\* resolve_dataset_range_source once the value is fetched: expand the stored
\* range if there is one, build a fresh one otherwise; the caller stores a
\* result that is not None
Resolve(value) ==
    /\ LET r == IF dataset_range # <<>>
                    THEN expand_dataset_range(dataset_range, value,
                                              "zero_to_value")
                ELSE _build_range(value, "zero_to_value")
       IN  /\ dataset_range' = IF r.kind = "range" THEN r.range
                               ELSE dataset_range
           /\ last_expand' = IF dataset_range # <<>>
                                 THEN [called |-> TRUE,
                                       old |-> dataset_range,
                                       new_value |-> value,
                                       none |-> r.kind = "None",
                                       ret |-> r.range]
                             ELSE NoExpand
    /\ UNCHANGED <<setterVars, minerVars>>

NextRange ==
    \E value \in (-1)..MaxValue : Resolve(value)

SpecRange ==
    Init /\ [][NextRange]_vars

(* ------------------------------- C26 ------------------------------------ *)

\* the indices of a segment read as inclusive [start, end]
Indices(seg) ==
    seg[1]..seg[2]

\* the indices covered by the segments of a range
Covered(r) ==
    UNION {Indices(r[i]) : i \in 1..Len(r)}

\* C26: from a range built by _build_range on, every expand_dataset_range
\* call whose result is adopted keeps the segments it was given as a prefix
\* and appends exactly one segment, holding only indices that no segment
\* covered before (segments read as inclusive [start, end]); and it returns
\* None exactly when new_value - 1 does not exceed the largest end so far.
C26_AppendsOnlyDelta ==
    last_expand.called =>
        /\ last_expand.none <=>
               last_expand.new_value - 1 <= MaxEnd(last_expand.old)
        /\ ~ last_expand.none =>
               /\ Len(last_expand.ret) = Len(last_expand.old) + 1
               /\ SubSeq(last_expand.ret, 1, Len(last_expand.old))
                      = last_expand.old
               /\ dataset_range = last_expand.ret
               /\ Indices(last_expand.ret[Len(last_expand.ret)])
                      \cap Covered(last_expand.old) = {}

(* ------------------------------ miners() -------------------------------- *)

\* len(meta.hotkeys), and the longest uid list queried
MaxUids == 3

\* values of AFFINE_META_CONCURRENCY
Limits ==
    {1, 2}

\* the uid lists queried: the first n uids of the metagraph, a list with a
\* uid out of its bounds, and a list of out-of-bounds uids only
QueryUids ==
    {[i \in 1..n |-> i - 1] : n \in 1..MaxUids}
        \cup {<<0, MaxUids>>, <<MaxUids>>}

\* what get_chute_info gives: an active chute, an inactive one, or an error
Responses ==
    {"hot", "cold", "NetworkError", "Exception"}

NotStarted ==
    [pc |-> "start", resp |-> ""]

\* uids inside the metagraph's bounds, in the order given
ValidQueryUids(u) ==
    SelectSeq(u, LAMBDA uid : 0 <= uid /\ uid <= MaxUids - 1)

\* miners() up to the gather: the blockchain data, the uid filter, meta_sem,
\* one _fetch_miner task per uid
Query(u, limit, commits, sub) ==
    /\ qpc = "idle"
    /\ query' = [uids |-> ValidQueryUids(u), limit |-> limit,
                 commits |-> commits]
    /\ output' = {}
    /\ IF sub # "ok"
           THEN /\ qpc' = "MinerQueryError"
                /\ fetch' = <<>>
                /\ results' = <<>>
                /\ meta_sem' = 0
       ELSE IF ValidQueryUids(u) = <<>>
           THEN /\ qpc' = "returned"
                /\ fetch' = <<>>
                /\ results' = <<>>
                /\ meta_sem' = 0
       ELSE /\ qpc' = "gather"
            /\ fetch' = [i \in 1..Len(ValidQueryUids(u)) |-> NotStarted]
            /\ results' = [i \in 1..Len(ValidQueryUids(u)) |-> "pending"]
            /\ meta_sem' = limit
    /\ UNCHANGED <<setterVars, rangeVars>>

\* _fetch_miner(uid) up to "async with meta_sem": without a usable commit it
\* returns None
Start(i) ==
    /\ qpc = "gather"
    /\ i \in 1..Len(fetch)
    /\ fetch[i].pc = "start"
    /\ IF query.uids[i] \in query.commits
           THEN /\ fetch' = [fetch EXCEPT ![i].pc = "acquire"]
                /\ UNCHANGED results
       ELSE /\ fetch' = [fetch EXCEPT ![i].pc = "done"]
            /\ results' = [results EXCEPT ![i] = "None"]
    /\ UNCHANGED <<query, qpc, meta_sem, output, setterVars, rangeVars>>

\* meta_sem.acquire(): taken when a permit is left, then get_chute_info is
\* called
Acquire(i) ==
    /\ qpc = "gather"
    /\ i \in 1..Len(fetch)
    /\ fetch[i].pc = "acquire"
    /\ meta_sem > 0
    /\ meta_sem' = meta_sem - 1
    /\ fetch' = [fetch EXCEPT ![i].pc = "request"]
    /\ UNCHANGED <<query, qpc, results, output, setterVars, rangeVars>>

\* the permit kept when the request raised
Release_onSuccess(sem, r) ==
    IF r \in {"hot", "cold"} THEN sem + 1 ELSE sem

\* leaving "async with meta_sem", by return or by exception
Release(sem, r) ==
    sem + 1

\* get_chute_info answers or raises; the permit is given back, and the task
\* returns a Miner for an active chute and None otherwise
Respond(i, r) ==
    /\ qpc = "gather"
    /\ i \in 1..Len(fetch)
    /\ fetch[i].pc = "request"
    /\ meta_sem' = Release(meta_sem, r)
    /\ fetch' = [fetch EXCEPT ![i] = [pc |-> "done", resp |-> r]]
    /\ results' = [results EXCEPT ![i] = IF r = "hot" THEN "Miner" ELSE "None"]
    /\ UNCHANGED <<query, qpc, output, setterVars, rangeVars>>

\* asyncio.gather has every result; the dict of the Miner results is returned
Gather ==
    /\ qpc = "gather"
    /\ \A i \in 1..Len(fetch) : fetch[i].pc = "done"
    /\ output' = {query.uids[i] : i \in {j \in 1..Len(results) :
                                            results[j] = "Miner"}}
    /\ qpc' = "returned"
    /\ UNCHANGED <<query, fetch, meta_sem, results, setterVars, rangeVars>>

miners ==
    \E u \in QueryUids, limit \in Limits,
       commits \in SUBSET (0..(MaxUids - 1)),
       sub \in {"ok", "RuntimeError"} :
        Query(u, limit, commits, sub)

NextMiners ==
    \/ miners
    \/ \E i \in 1..MaxUids : Start(i)
    \/ \E i \in 1..MaxUids : Acquire(i)
    \/ \E i \in 1..MaxUids, r \in Responses : Respond(i, r)
    \/ Gather

SpecMiners ==
    Init /\ [][NextMiners]_vars

\* The event loop runs every task that can run, meta_sem wakes its waiters
\* in turn, and every get_chute_info request ends, by an answer or an error.
SpecMinersFair ==
    /\ SpecMiners
    /\ \A i \in 1..MaxUids :
           /\ WF_vars(Start(i))
           /\ SF_vars(Acquire(i))
           /\ WF_vars(\E r \in Responses : Respond(i, r))
    /\ WF_vars(Gather)

(* ------------------------------- C27 ------------------------------------ *)

\* the tasks whose get_chute_info request is under way
InFlight ==
    {i \in 1..Len(fetch) : fetch[i].pc = "request"}

\* the tasks whose request failed
Failed ==
    {i \in 1..Len(fetch) :
        fetch[i].pc = "done" /\ fetch[i].resp \in {"NetworkError", "Exception"}}

\* the uids with a usable commit and an active chute
Served ==
    {query.uids[i] : i \in {j \in 1..Len(fetch) :
        /\ query.uids[j] \in query.commits
        /\ fetch[j].pc = "done"
        /\ fetch[j].resp = "hot"}}

\* never more requests under way than the limit; a permit is out exactly
\* while a request is under way, the permit of a failed request included;
\* and the returned dict holds exactly the uids that were served
BoundedAndIsolated ==
    /\ Cardinality(InFlight) <= query.limit
    /\ qpc \in {"gather", "returned"} /\ fetch # <<>> =>
           meta_sem + Cardinality(InFlight) = query.limit
    /\ qpc = "returned" =>
           /\ \A i \in 1..Len(fetch) : fetch[i].pc = "done"
           /\ output = Served

====
